---------------------------- MODULE Spec2Model ----------------------------
(***************************************************************************)
(* A model of stream.hpp: Stream<TCollection> and its stages Map, Filter,  *)
(* Take, TakeWhile, Skip, SkipWhile, with the Collection<> adapters.       *)
(*                                                                         *)
(* A container is a sequence of its elements in iteration order.  An       *)
(* iterator is a position p: 1..Len(c) denote the elements, Len(c)+1 is    *)
(* c.end().  A stage is the pair (begin, end) of the base class Stream,    *)
(* the storage these iterators point into, and the storage the stage owns  *)
(* (the member `mapped` of Map, `filtered` of Filter; 0 for none).         *)
(***************************************************************************)
EXTENDS Integers, Sequences, FiniteSets, TLC

VARIABLES storage, stages, last

vars == <<storage, stages, last>>

\* Longest caller-supplied collection.
MaxLen == 3
\* Most stage objects the program constructs.
MaxStages == 3
\* Most stage objects of a program that also runs terminal operations.
MaxPipeline == 2

\* Element values of the caller's collections.
Values == {1, 2, 3}
\* Values a read outside every live element may produce.
Garbage == {0, 9}
\* Seeds handed to reduce(init, reducer).
Seeds == {0, 5}

\* The container kinds with a Collection<> entry: the primary template as
\* instantiated for std::vector, and the two specializations.
Kinds == {"vector", "set", "unordered_set"}

Range(s) == {s[i] : i \in DOMAIN s}

Perms(S) == {s \in [1 .. Cardinality(S) -> S] : \A i, j \in DOMAIN s : i # j => s[i] # s[j]}

Sorted(S) == CHOOSE s \in Perms(S) : \A i, j \in DOMAIN s : i < j => s[i] < s[j]

(***************************************************************************)
(* Caller-supplied callables.                                              *)
(***************************************************************************)
Mappers == {"same", "half", "flip"}
Predicates == {"odd", "big"}
Reducers == {"lin", "sub"}

mapper(f, t) ==
    CASE f = "same" -> t
      [] f = "half" -> t \div 2
      [] f = "flip" -> 4 - t

predicate(p, value) ==
    CASE p = "odd" -> value % 2 = 1
      [] p = "big" -> value >= 2

reducer(r, acc, value) ==
    CASE r = "lin" -> 2 * acc + value
      [] r = "sub" -> acc - value

(***************************************************************************)
(* Collection<TCollection>: WithValueType and insert.  insert gives the    *)
(* set of containers the call may leave: one for std::vector and std::set, *)
(* any iteration order of the new element set for std::unordered_set.      *)
(***************************************************************************)
WithValueType(kind) == kind

insert(kind, collection, value) ==
    CASE kind = "vector" -> {Append(collection, value)}
      [] kind = "set" ->
            IF value \in Range(collection) THEN {collection}
            ELSE {Sorted(Range(collection) \cup {value})}
      [] kind = "unordered_set" ->
            IF value \in Range(collection) THEN {collection}
            ELSE Perms(Range(collection) \cup {value})

\* The collections a caller can hand to Stream(collection).
Sources(kind) ==
    CASE kind = "vector" -> UNION {[1 .. n -> Values] : n \in 0 .. MaxLen}
      [] kind = "set" -> {Sorted(S) : S \in {T \in SUBSET Values : Cardinality(T) <= MaxLen}}
      [] kind = "unordered_set" ->
            UNION {Perms(S) : S \in {T \in SUBSET Values : Cardinality(T) <= MaxLen}}

(***************************************************************************)
(* Stage records.                                                          *)
(***************************************************************************)
\* explicit Stream(TCollection& collection)
Stream(id, collection) ==
    [store |-> id, begin |-> 1, end |-> Len(collection) + 1, owned |-> 0, live |-> TRUE]

\* The elements of [begin, end) in a container.
View(elems, begin, end) == SubSeq(elems, begin, end - 1)

StageView(s) == View(storage[stages[s].store].elems, stages[s].begin, stages[s].end)

\* A stage that can be used with defined behaviour: the object is alive and
\* so is the storage its iterators point into.
Usable(s) == stages[s].live /\ storage[stages[s].store].alive

NoCall ==
    [op |-> "Stream", on |-> 0, made |-> 0, f |-> "-", n |-> 0, kind |-> "-",
     status |-> "returned", val |-> 0, flag |-> FALSE, out |-> <<>>,
     calls |-> <<>>, reads |-> <<>>, accs |-> <<>>, idxs |-> <<>>]

Init ==
    /\ \E kind \in Kinds : \E c \in Sources(kind) :
          /\ storage = <<[kind |-> kind, elems |-> c, alive |-> TRUE]>>
          /\ stages = <<Stream(1, c)>>
    /\ last = NoCall

(***************************************************************************)
(* The materializing stages: Map and Filter.                               *)
(***************************************************************************)
RECURSIVE Map_loop(_, _, _, _, _, _)
\* for (auto iter = begin; iter != end; ++iter) insert(mapped, mapper(*iter));
Map_loop(kind, f, elems, iter, end, done) ==
    IF iter = end THEN {done}
    ELSE UNION {Map_loop(kind, f, elems, iter + 1, end,
                         [coll |-> c, calls |-> Append(done.calls, iter)]) :
                   c \in insert(kind, done.coll, mapper(f, elems[iter]))}

\* Map::map gone wrong: the result is built in a deduplicating container.
Map_map_unique(kind, f, elems, begin, end) ==
    Map_loop("set", f, elems, begin, end, [coll |-> <<>>, calls |-> <<>>])

\* static RCollection Map::map(mapper, begin, end), RCollection of kind `kind`.
Map_map(kind, f, elems, begin, end) ==
    Map_loop(kind, f, elems, begin, end, [coll |-> <<>>, calls |-> <<>>])

\* Map::Map: the stage owns `mapped` (storage id) and views all of it.
Map(id, mapped) ==
    [store |-> id, begin |-> 1, end |-> Len(mapped) + 1, owned |-> id, live |-> TRUE]

RECURSIVE Filter_loop(_, _, _, _, _, _)
\* for (...) if (predicate(*iter)) insert(filtered, *iter);
Filter_loop(kind, p, elems, iter, end, done) ==
    IF iter = end THEN {done}
    ELSE IF predicate(p, elems[iter])
         THEN UNION {Filter_loop(kind, p, elems, iter + 1, end,
                                 [coll |-> c, calls |-> Append(done.calls, iter)]) :
                        c \in insert(kind, done.coll, elems[iter])}
         ELSE Filter_loop(kind, p, elems, iter + 1, end,
                          [coll |-> done.coll, calls |-> Append(done.calls, iter)])

\* Filter::filter gone wrong: the pass starts one element late.
Filter_filter_late(kind, p, elems, begin, end) ==
    Filter_loop(kind, p, elems, IF begin = end THEN begin ELSE begin + 1, end,
                [coll |-> <<>>, calls |-> <<>>])

\* static TCollection Filter::filter(predicate, begin, end)
Filter_filter(kind, p, elems, begin, end) ==
    Filter_loop(kind, p, elems, begin, end, [coll |-> <<>>, calls |-> <<>>])

\* Filter::Filter: the stage owns `filtered` and views all of it.
Filter(id, filtered) ==
    [store |-> id, begin |-> 1, end |-> Len(filtered) + 1, owned |-> id, live |-> TRUE]

(***************************************************************************)
(* The narrowing stages: Take, TakeWhile, Skip, SkipWhile.  Each gives the *)
(* (begin, end) its constructor leaves in the base class, and the          *)
(* positions it handed to the predicate.                                   *)
(***************************************************************************)
RECURSIVE Take_loop(_, _, _, _)
\* for (usize i = 0; i < count && iter != end; ++i) { ++iter; }
Take_loop(i, iter, count, end) ==
    IF i < count /\ iter # end THEN Take_loop(i + 1, iter + 1, count, end) ELSE iter

\* Take gone wrong: the advance does not stop at the input's end.
Take_unchecked(count, begin, end) ==
    [begin |-> begin, end |-> begin + count, calls |-> <<>>]

Take(count, begin, end) ==
    [begin |-> begin, end |-> Take_loop(0, begin, count, end), calls |-> <<>>]

RECURSIVE TakeWhile_loop(_, _, _, _, _)
TakeWhile_loop(p, elems, iter, end, calls) ==
    IF iter = end THEN [at |-> end, calls |-> calls]
    ELSE IF ~predicate(p, elems[iter]) THEN [at |-> iter, calls |-> Append(calls, iter)]
    ELSE TakeWhile_loop(p, elems, iter + 1, end, Append(calls, iter))

\* TakeWhile gone wrong: the first failing element is kept.
TakeWhile_inclusive(p, elems, begin, end) ==
    LET r == TakeWhile_loop(p, elems, begin, end, <<>>)
    IN  [begin |-> begin, end |-> IF r.at = end THEN end ELSE r.at + 1, calls |-> r.calls]

TakeWhile(p, elems, begin, end) ==
    LET r == TakeWhile_loop(p, elems, begin, end, <<>>)
    IN  [begin |-> begin, end |-> r.at, calls |-> r.calls]

RECURSIVE Skip_loop(_, _, _, _)
Skip_loop(i, iter, count, end) ==
    IF i < count /\ iter # end THEN Skip_loop(i + 1, iter + 1, count, end) ELSE iter

Skip(count, begin, end) ==
    [begin |-> Skip_loop(0, begin, count, end), end |-> end, calls |-> <<>>]

RECURSIVE SkipWhile_loop(_, _, _, _, _)
SkipWhile_loop(p, elems, iter, end, calls) ==
    IF iter = end THEN [at |-> end, calls |-> calls]
    ELSE IF ~predicate(p, elems[iter]) THEN [at |-> iter, calls |-> Append(calls, iter)]
    ELSE SkipWhile_loop(p, elems, iter + 1, end, Append(calls, iter))

SkipWhile(p, elems, begin, end) ==
    LET r == SkipWhile_loop(p, elems, begin, end, <<>>)
    IN  [begin |-> r.at, end |-> end, calls |-> r.calls]

\* A narrowing stage: the iterators point into the storage the input's
\* iterators point into; the stage owns nothing.
Narrowed(s, r) ==
    [store |-> stages[s].store, begin |-> r.begin, end |-> r.end, owned |-> 0, live |-> TRUE]

(***************************************************************************)
(* Stream's intermediate operations, each on a stage s of the program.     *)
(***************************************************************************)
CanChain(s) == s \in DOMAIN stages /\ Usable(s)

\* The new stage object joins the program's stages; no other stage changes.
NewStage(st) == stages' = Append(stages, st)

NewStorage(kind, elems) ==
    storage' = Append(storage, [kind |-> kind, elems |-> elems, alive |-> TRUE])

map(s, f) ==
    /\ CanChain(s)
    /\ LET st == stages[s]
           kind == WithValueType(storage[st.store].kind)
       IN  \E m \in Map_map(kind, f, storage[st.store].elems, st.begin, st.end) :
              /\ NewStorage(kind, m.coll)
              /\ NewStage(Map(Len(storage) + 1, m.coll))
              /\ last' = [NoCall EXCEPT !.op = "map", !.on = s, !.f = f,
                                        !.made = Len(stages) + 1, !.calls = m.calls]

filter(s, p) ==
    /\ CanChain(s)
    /\ LET st == stages[s]
           kind == storage[st.store].kind
       IN  \E m \in Filter_filter(kind, p, storage[st.store].elems, st.begin, st.end) :
              /\ NewStorage(kind, m.coll)
              /\ NewStage(Filter(Len(storage) + 1, m.coll))
              /\ last' = [NoCall EXCEPT !.op = "filter", !.on = s, !.f = p,
                                        !.made = Len(stages) + 1, !.calls = m.calls]

Narrow(s, op, f, n, r) ==
    /\ NewStage(Narrowed(s, r))
    /\ last' = [NoCall EXCEPT !.op = op, !.on = s, !.f = f, !.n = n,
                              !.made = Len(stages) + 1, !.calls = r.calls]
    /\ UNCHANGED storage

take(s, count) ==
    /\ CanChain(s)
    /\ Narrow(s, "take", "-", count, Take(count, stages[s].begin, stages[s].end))

takeWhile(s, p) ==
    /\ CanChain(s)
    /\ Narrow(s, "takeWhile", p, 0,
              TakeWhile(p, storage[stages[s].store].elems, stages[s].begin, stages[s].end))

skip(s, count) ==
    /\ CanChain(s)
    /\ Narrow(s, "skip", "-", count, Skip(count, stages[s].begin, stages[s].end))

skipWhile(s, p) ==
    /\ CanChain(s)
    /\ Narrow(s, "skipWhile", p, 0,
              SkipWhile(p, storage[stages[s].store].elems, stages[s].begin, stages[s].end))

\* Counts handed to take and skip on stage s (usize: never negative): below,
\* at and above the length of its range.
Counts(s) == 0 .. (stages[s].end - stages[s].begin + 1)

\* The program constructs one more stage, while it holds fewer than cap.
Intermediate(cap) ==
    /\ Len(stages) < cap
    /\ \E s \in DOMAIN stages :
          \/ \E f \in Mappers : map(s, f)
          \/ \E p \in Predicates : filter(s, p)
          \/ \E count \in Counts(s) : take(s, count)
          \/ \E p \in Predicates : takeWhile(s, p)
          \/ \E count \in Counts(s) : skip(s, count)
          \/ \E p \in Predicates : skipWhile(s, p)

(***************************************************************************)
(* Stream's terminal operations.  Each operator walks [begin, end) as the  *)
(* code's loop does and gives what the call returns together with what it  *)
(* did on the way: `reads` the positions it dereferenced, `calls` the      *)
(* positions whose element it handed to the callable, `accs` the           *)
(* accumulators handed to the reducer, `idxs` the indices handed to the    *)
(* indexed consumer, `out` the elements consumed or collected.             *)
(***************************************************************************)
Returned ==
    [status |-> "returned", val |-> 0, flag |-> FALSE, out |-> <<>>,
     calls |-> <<>>, reads |-> <<>>, accs |-> <<>>, idxs |-> <<>>]

RECURSIVE forEach_loop(_, _, _, _)
forEach_loop(elems, iter, end, o) ==
    IF iter = end THEN o
    ELSE forEach_loop(elems, iter + 1, end,
                      [o EXCEPT !.out = Append(@, elems[iter]),
                                !.reads = Append(@, iter), !.calls = Append(@, iter)])

forEach(elems, begin, end) == forEach_loop(elems, begin, end, Returned)

RECURSIVE forEachIndexed_loop(_, _, _, _, _)
forEachIndexed_loop(elems, iter, end, index, o) ==
    IF iter = end THEN o
    ELSE forEachIndexed_loop(elems, iter + 1, end, index + 1,
                             [o EXCEPT !.out = Append(@, elems[iter]),
                                       !.idxs = Append(@, index),
                                       !.reads = Append(@, iter), !.calls = Append(@, iter)])

forEachIndexed(elems, begin, end) == forEachIndexed_loop(elems, begin, end, 0, Returned)

RECURSIVE reduce_loop(_, _, _, _, _)
\* for (; iter != end; ++iter) acc = reducer(acc, *iter);
reduce_loop(r, elems, iter, end, o) ==
    IF iter = end THEN o
    ELSE reduce_loop(r, elems, iter + 1, end,
                     [o EXCEPT !.val = reducer(r, @, elems[iter]),
                               !.accs = Append(@, o.val),
                               !.reads = Append(@, iter), !.calls = Append(@, iter)])

\* What `Value acc = *iter++` and the loop after it can do when iter = end:
\* the position holds no element of the range, the read is undefined, and
\* iter has stepped past end, so the loop's `iter != end` does not stop it at
\* the end of the range.  The call ends abnormally, or comes back with a
\* value made of whatever it read.
UndefinedReduce(begin) ==
    {[Returned EXCEPT !.status = "crashed", !.reads = <<begin>>]}
    \cup {[Returned EXCEPT !.val = g, !.reads = <<begin>>] : g \in Garbage}

\* Value reduce(FReducer reducer): the outcomes of the call.
reduce(r, elems, begin, end) ==
    IF begin \in DOMAIN elems /\ begin # end
    THEN {reduce_loop(r, elems, begin + 1, end,
                      [Returned EXCEPT !.val = elems[begin], !.reads = <<begin>>])}
    ELSE UndefinedReduce(begin)

RECURSIVE reduceSeed_loop(_, _, _, _, _)
\* for (auto iter = begin; iter != end; ++iter) result = reducer(result, *iter);
reduceSeed_loop(r, elems, iter, end, o) ==
    IF iter = end THEN o
    ELSE reduceSeed_loop(r, elems, iter + 1, end,
                         [o EXCEPT !.val = reducer(r, @, elems[iter]),
                                   !.accs = Append(@, o.val),
                                   !.reads = Append(@, iter), !.calls = Append(@, iter)])

\* The seeded reduce gone wrong: the reducer gets (element, accumulator).
reduceSeed_swapped(r, init, elems, begin, end) ==
    LET o == reduceSeed_loop(r, elems, begin, end, [Returned EXCEPT !.val = init])
        RECURSIVE Swapped(_, _)
        Swapped(iter, acc) ==
            IF iter = end THEN acc ELSE Swapped(iter + 1, reducer(r, elems[iter], acc))
    IN  [o EXCEPT !.val = Swapped(begin, init)]

\* R reduce(R init, FReducer reducer)
reduceSeed(r, init, elems, begin, end) ==
    reduceSeed_loop(r, elems, begin, end, [Returned EXCEPT !.val = init])

RECURSIVE any_loop(_, _, _, _, _)
any_loop(p, elems, iter, end, o) ==
    IF iter = end THEN [o EXCEPT !.flag = FALSE]
    ELSE LET seen == [o EXCEPT !.reads = Append(@, iter), !.calls = Append(@, iter)]
         IN  IF predicate(p, elems[iter]) THEN [seen EXCEPT !.flag = TRUE]
             ELSE any_loop(p, elems, iter + 1, end, seen)

\* any gone wrong: the walk goes on after the first match.
any_exhaustive(p, elems, begin, end) ==
    [forEach(elems, begin, end) EXCEPT
        !.out = <<>>,
        !.flag = \E i \in begin .. (end - 1) : predicate(p, elems[i])]

any(p, elems, begin, end) == any_loop(p, elems, begin, end, Returned)

RECURSIVE all_loop(_, _, _, _, _)
all_loop(p, elems, iter, end, o) ==
    IF iter = end THEN [o EXCEPT !.flag = TRUE]
    ELSE LET seen == [o EXCEPT !.reads = Append(@, iter), !.calls = Append(@, iter)]
         IN  IF ~predicate(p, elems[iter]) THEN [seen EXCEPT !.flag = FALSE]
             ELSE all_loop(p, elems, iter + 1, end, seen)

all(p, elems, begin, end) == all_loop(p, elems, begin, end, Returned)

RECURSIVE collect_loop(_, _, _, _, _)
\* for (...) Collection<RCollection>::insert(result, *iter);
collect_loop(kind, elems, iter, end, o) ==
    IF iter = end THEN {o}
    ELSE UNION {collect_loop(kind, elems, iter + 1, end,
                             [o EXCEPT !.out = c, !.reads = Append(@, iter)]) :
                   c \in insert(kind, o.out, elems[iter])}

\* collect gone wrong: every target is filled by ordered append.
collect_append(kind, elems, begin, end) ==
    collect_loop("vector", elems, begin, end, Returned)

\* RCollection collect<RCollection>(), RCollection of kind `kind`.
collect(kind, elems, begin, end) == collect_loop(kind, elems, begin, end, Returned)

\* A terminal call reads through local iterators: the stage it is invoked on,
\* every other stage and every storage are as before; the caller gets o.
Yield(s, call, o) ==
    /\ last' = [call EXCEPT !.on = s, !.status = o.status, !.val = o.val, !.flag = o.flag,
                            !.out = o.out, !.calls = o.calls, !.reads = o.reads,
                            !.accs = o.accs, !.idxs = o.idxs]
    /\ UNCHANGED <<storage, stages>>

CanUse(s) == s \in DOMAIN stages /\ Usable(s)

Elems(s) == storage[stages[s].store].elems

Terminal ==
    \E s \in DOMAIN stages :
       /\ CanUse(s)
       /\ LET b == stages[s].begin
              e == stages[s].end
          IN  \/ Yield(s, [NoCall EXCEPT !.op = "forEach"], forEach(Elems(s), b, e))
              \/ Yield(s, [NoCall EXCEPT !.op = "forEachIndexed"],
                       forEachIndexed(Elems(s), b, e))
              \/ \E r \in Reducers : \E o \in reduce(r, Elems(s), b, e) :
                    Yield(s, [NoCall EXCEPT !.op = "reduce", !.f = r], o)
              \/ \E r \in Reducers : \E init \in Seeds :
                    Yield(s, [NoCall EXCEPT !.op = "reduceSeed", !.f = r, !.n = init],
                          reduceSeed(r, init, Elems(s), b, e))
              \/ \E p \in Predicates :
                    Yield(s, [NoCall EXCEPT !.op = "any", !.f = p], any(p, Elems(s), b, e))
              \/ \E p \in Predicates :
                    Yield(s, [NoCall EXCEPT !.op = "all", !.f = p], all(p, Elems(s), b, e))
              \/ \E kind \in Kinds : \E o \in collect(kind, Elems(s), b, e) :
                    Yield(s, [NoCall EXCEPT !.op = "collect", !.kind = kind], o)

(***************************************************************************)
(* Object lifetime.  A stage object can be copied (Map, Filter and the     *)
(* narrowing stages declare no copy constructor, so the implicit one       *)
(* copies the base class's begin and end and the member container) and     *)
(* destroyed (a temporary at the end of its full expression, a local at    *)
(* the end of its scope), which destroys the container it owns.  The       *)
(* caller's collection outlives every stage.                               *)
(***************************************************************************)
\* The implicit copy constructor: begin and end are copied as they are, so
\* they still point into the storage the original's pointed into; the
\* member container, when there is one, is copied into storage `id`.
Copied(st, id) ==
    [store |-> st.store, begin |-> st.begin, end |-> st.end,
     owned |-> IF st.owned # 0 THEN id ELSE 0, live |-> TRUE]

copy(s) ==
    /\ s \in DOMAIN stages
    /\ stages[s].live
    /\ NewStage(Copied(stages[s], Len(storage) + 1))
    /\ storage' = IF stages[s].owned # 0
                  THEN Append(storage, storage[stages[s].owned])
                  ELSE storage
    /\ last' = [NoCall EXCEPT !.op = "copy", !.on = s, !.made = Len(stages) + 1]

\* The implicit destructor: the stage is gone, and with it the container it
\* owns; no other stage is told.
destroy(s) ==
    /\ s \in DOMAIN stages
    /\ stages[s].live
    /\ stages' = [stages EXCEPT ![s].live = FALSE]
    /\ storage' = IF stages[s].owned # 0
                  THEN [storage EXCEPT ![stages[s].owned].alive = FALSE]
                  ELSE storage
    /\ last' = [NoCall EXCEPT !.op = "destroy", !.on = s]

NextLife ==
    \/ Intermediate(MaxStages)
    \/ Len(stages) < MaxStages /\ \E s \in DOMAIN stages : copy(s)
    \/ \E s \in DOMAIN stages : destroy(s)

SpecLife == Init /\ [][NextLife]_vars

Next == Intermediate(MaxStages)

Spec == Init /\ [][Next]_vars

\* A stage as skip and take leave it: any range of a caller's collection.
InitRange ==
    /\ \E kind \in Kinds : \E c \in Sources(kind) :
          \E b \in 1 .. (Len(c) + 1) : \E e \in b .. (Len(c) + 1) :
             /\ storage = <<[kind |-> kind, elems |-> c, alive |-> TRUE]>>
             /\ stages = <<[store |-> 1, begin |-> b, end |-> e, owned |-> 0, live |-> TRUE]>>
    /\ last = NoCall

SpecTerminal == InitRange /\ [][Terminal]_vars

\* A program over one collection of each kind that holds every value once.
InitProgram ==
    /\ \E kind \in Kinds :
          /\ storage = <<[kind |-> kind, elems |-> Sorted(Values), alive |-> TRUE]>>
          /\ stages = <<Stream(1, Sorted(Values))>>
    /\ last = NoCall

NextProgram == Intermediate(MaxPipeline) \/ Terminal

SpecProgram == InitProgram /\ [][NextProgram]_vars

(***************************************************************************)
(* The properties.                                                         *)
(***************************************************************************)
Min(a, b) == IF a < b THEN a ELSE b

\* The positions begin, begin + 1, ..., end - 1, in order.
Positions(begin, end) == [i \in 1 .. (end - begin) |-> begin + i - 1]

NoDuplicates(s) == \A i, j \in DOMAIN s : i # j => s[i] # s[j]

Ascending(s) == \A i, j \in DOMAIN s : i < j => s[i] < s[j]

\* The stage the last call was invoked on, the stage it made, and their views.
In == stages[last.on]
Out == stages[last.made]
InKind == storage[In.store].kind
InView == StageView(last.on)
OutView == StageView(last.made)

\* The new stage collected into an ordered sequence.
CollectedOut ==
    {o.out : o \in collect("vector", storage[Out.store].elems, Out.begin, Out.end)}

\* C1 as stated: for a source of any container kind, collecting map(S, f)
\* into an ordered sequence gives one element per element of S, the i-th
\* being f(S[i]); nothing is deduplicated.
C1_MapKeepsEveryElement ==
    last.op = "map" =>
        \A R \in CollectedOut :
            /\ Len(R) = Len(InView)
            /\ \A i \in DOMAIN InView : R[i] = mapper(last.f, InView[i])

\* C1 amended: the above holds for a source held in a sequence container; for
\* a source held in an ordered set or a hash set, Map materializes into a set
\* of the same kind, so the result holds each distinct image once (in
\* ascending order for the ordered set).  The mapper runs once per element of
\* the input range, in range order, whatever the kind.
C1_MapBySourceKind ==
    last.op = "map" =>
        /\ last.calls = Positions(In.begin, In.end)
        /\ \A R \in CollectedOut :
              IF InKind = "vector"
              THEN /\ Len(R) = Len(InView)
                   /\ \A i \in DOMAIN InView : R[i] = mapper(last.f, InView[i])
              ELSE /\ Range(R) = {mapper(last.f, InView[i]) : i \in DOMAIN InView}
                   /\ NoDuplicates(R)
                   /\ InKind = "set" => Ascending(R)

\* A map over a sequence in which two different elements have the same image.
C1_Witness ==
    /\ last.op = "map"
    /\ InKind = "vector"
    /\ \E i, j \in DOMAIN InView :
          /\ i < j
          /\ InView[i] # InView[j]
          /\ mapper(last.f, InView[i]) = mapper(last.f, InView[j])
    /\ In.begin > 1

KeptBy(p, S) == LET Holds(x) == predicate(p, x) IN SelectSeq(S, Holds)

\* C2 as stated: collect(filter(S, p)) is the elements of S that satisfy p,
\* in their order in S, each as often as in S, and p ran once per element of
\* the input range.
C2_FilterKeepsOrder ==
    last.op = "filter" =>
        /\ last.calls = Positions(In.begin, In.end)
        /\ \A R \in CollectedOut :
              /\ \A i \in DOMAIN R : predicate(last.f, R[i])
              /\ R = KeptBy(last.f, InView)

\* C2 amended: the above holds for a source held in a sequence container or
\* an ordered set; for a source held in a hash set the result holds exactly
\* the elements that satisfy p, each once, in an order of the container's
\* choosing.  p runs once per element of the input range in every case.
C2_FilterBySourceKind ==
    last.op = "filter" =>
        /\ last.calls = Positions(In.begin, In.end)
        /\ \A R \in CollectedOut :
              /\ \A i \in DOMAIN R : predicate(last.f, R[i])
              /\ Len(R) = Len(KeptBy(last.f, InView))
              /\ IF InKind = "unordered_set"
                 THEN Range(R) = Range(KeptBy(last.f, InView)) /\ NoDuplicates(R)
                 ELSE R = KeptBy(last.f, InView)

\* A filter over a sequence that drops an element between two it keeps.
C2_Witness ==
    /\ last.op = "filter"
    /\ InKind = "vector"
    /\ \E i, j, k \in DOMAIN InView :
          /\ i < j /\ j < k
          /\ predicate(last.f, InView[i])
          /\ ~predicate(last.f, InView[j])
          /\ predicate(last.f, InView[k])

\* C5: take(n) is the first min(n, L) elements of a range of length L (begin
\* kept, end = begin + min(n, L)) and skip(n) is what follows them (end kept,
\* begin advanced by min(n, L)); neither boundary passes the input's end.
C5_TakeSkipCount ==
    LET L == In.end - In.begin
        m == Min(last.n, L)
    IN  /\ last.op = "take" =>
              /\ Out.store = In.store
              /\ Out.begin = In.begin
              /\ Out.end = In.begin + m
              /\ Out.end <= In.end
              /\ OutView = SubSeq(InView, 1, m)
              /\ last.n = 0 => OutView = <<>>
              /\ last.n >= L => OutView = InView
        /\ last.op = "skip" =>
              /\ Out.store = In.store
              /\ Out.end = In.end
              /\ Out.begin = In.begin + m
              /\ Out.begin <= In.end
              /\ OutView = SubSeq(InView, m + 1, L)
              /\ last.n = 0 => OutView = InView
              /\ last.n >= L => OutView = <<>>

\* take(n) with n above the length of a non-empty range that starts inside
\* its storage.
C5_Witness ==
    /\ last.op = "take"
    /\ In.begin > 1
    /\ In.end > In.begin
    /\ last.n > In.end - In.begin

\* C6: takeWhile(p) and skipWhile(p) split the same range at the same
\* position, the first element failing p (end if none): the prefix satisfies
\* p throughout, the rest is empty or starts with an element failing p, and
\* prefix followed by rest is the range.
C6_WhileSplit ==
    LET elems == storage[In.store].elems
        tw == TakeWhile(last.f, elems, In.begin, In.end)
        sw == SkipWhile(last.f, elems, In.begin, In.end)
        prefix == View(elems, tw.begin, tw.end)
        rest == View(elems, sw.begin, sw.end)
    IN  last.op \in {"takeWhile", "skipWhile"} =>
            /\ last.op = "takeWhile" => Out.begin = tw.begin /\ Out.end = tw.end
            /\ last.op = "skipWhile" => Out.begin = sw.begin /\ Out.end = sw.end
            /\ Out.store = In.store
            /\ tw.end = sw.begin
            /\ tw.begin = In.begin /\ sw.end = In.end
            /\ \A i \in DOMAIN prefix : predicate(last.f, prefix[i])
            /\ rest = <<>> \/ ~predicate(last.f, rest[1])
            /\ prefix \o rest = InView

\* A takeWhile that splits a range strictly inside it.
C6_Witness ==
    /\ last.op = "takeWhile"
    /\ Out.end > In.begin
    /\ Out.end < In.end

RECURSIVE FoldLeft(_, _, _)
\* reducer(...reducer(reducer(acc, S[1]), S[2])..., S[k])
FoldLeft(r, acc, S) ==
    IF S = <<>> THEN acc ELSE FoldLeft(r, reducer(r, acc, Head(S)), Tail(S))

\* The accumulators a left fold hands to the reducer, in order.
FoldAccs(r, acc, S) == [i \in DOMAIN S |-> FoldLeft(r, acc, SubSeq(S, 1, i - 1))]

\* C3 as stated: reduce(reducer) on an empty range reports EmptySequence,
\* without reading the position at begin, invoking the reducer or returning
\* a value.
C3_EmptyReduceReported ==
    (last.op = "reduce" /\ In.begin = In.end) =>
        /\ last.status = "EmptySequence"
        /\ In.begin \notin Range(last.reads)
        /\ last.calls = <<>>

\* C7: reduce(seed, reducer) is the left fold of the range from seed, the
\* reducer running once per element in range order with the accumulator
\* first; on an empty range it is seed and the reducer does not run.  On a
\* non-empty range reduce(reducer) is the left fold of the rest of the range
\* from its first element.
C7_ReduceIsLeftFold ==
    /\ last.op = "reduceSeed" =>
          /\ last.status = "returned"
          /\ last.val = FoldLeft(last.f, last.n, InView)
          /\ last.calls = Positions(In.begin, In.end)
          /\ last.accs = FoldAccs(last.f, last.n, InView)
          /\ InView = <<>> => last.val = last.n /\ last.calls = <<>>
    /\ (last.op = "reduce" /\ InView # <<>>) =>
          /\ last.status = "returned"
          /\ last.val = FoldLeft(last.f, Head(InView), Tail(InView))
          /\ last.calls = Positions(In.begin + 1, In.end)
          /\ last.accs = FoldAccs(last.f, Head(InView), Tail(InView))

\* A seeded reduce whose result depends on the order and on which argument
\* is the accumulator.
C7_Witness ==
    /\ last.op = "reduceSeed"
    /\ Len(InView) >= 2
    /\ In.begin > 1
    /\ last.val # FoldLeft(last.f, last.n, <<InView[2], InView[1]>> \o SubSeq(InView, 3, Len(InView)))

\* The positions of a range whose element satisfies (sat) or fails (~sat) p.
Hits(p, sat) == {i \in DOMAIN InView : predicate(p, InView[i]) = sat}

FirstOf(S) == CHOOSE i \in S : \A j \in S : i <= j

\* The positions handed to p by a walk that stops at the first element whose
\* test gives `sat`.
WalkUntil(p, sat) ==
    IF Hits(p, sat) = {} THEN Positions(In.begin, In.end)
    ELSE Positions(In.begin, In.begin + FirstOf(Hits(p, sat)))

\* C8: any(p) is true iff some element satisfies p, all(p) is true iff none
\* fails it (so false and true on the empty range); both hand elements to p
\* in range order and no element after the first match (any) or the first
\* non-match (all).
C8_AnyAllShortCircuit ==
    /\ last.op = "any" =>
          /\ last.flag = (Hits(last.f, TRUE) # {})
          /\ last.calls = WalkUntil(last.f, TRUE)
          /\ InView = <<>> => last.flag = FALSE
    /\ last.op = "all" =>
          /\ last.flag = (Hits(last.f, FALSE) = {})
          /\ last.calls = WalkUntil(last.f, FALSE)
          /\ InView = <<>> => last.flag = TRUE

\* An any that matched before the end of its range.
C8_Witness ==
    /\ last.op = "any"
    /\ last.flag
    /\ Len(last.calls) < Len(InView)
    /\ Len(last.calls) > 1

\* C9: collect into a sequence gives the range element for element,
\* duplicates kept; collect into a set-like container gives exactly the
\* distinct values of the range, each once.
C9_CollectByTargetKind ==
    last.op = "collect" =>
        /\ last.reads = Positions(In.begin, In.end)
        /\ IF last.kind = "vector"
           THEN last.out = InView
           ELSE /\ Range(last.out) = Range(InView)
                /\ NoDuplicates(last.out)
                /\ last.kind = "set" => Ascending(last.out)

\* A range with a repeated value collected into a set-like container.
C9_Witness ==
    /\ last.op = "collect"
    /\ last.kind \in {"set", "unordered_set"}
    /\ ~NoDuplicates(InView)
    /\ Len(last.out) >= 2

\* C4 as stated: in every reachable state of a program that chains, copies
\* and destroys stages, every live stage's begin and end are positions of
\* storage that is still alive, with end reachable from begin; no live stage
\* views the storage of a materializing stage that has been destroyed.
C4_LiveStagesViewLiveStorage ==
    \A s \in DOMAIN stages :
        stages[s].live =>
            /\ storage[stages[s].store].alive
            /\ 1 <= stages[s].begin
            /\ stages[s].begin <= stages[s].end
            /\ stages[s].end <= Len(storage[stages[s].store].elems) + 1

TerminalOps == {"forEach", "forEachIndexed", "reduce", "reduceSeed", "any", "all", "collect"}

\* What a caller gets from a terminal call.  Two hash sets are the same
\* result when they hold the same elements.
ResultOf(call) ==
    [status |-> call.status, val |-> call.val, flag |-> call.flag,
     out |-> IF call.kind = "unordered_set" THEN Sorted(Range(call.out)) ELSE call.out,
     calls |-> call.calls, idxs |-> call.idxs]

\* No stage that exists changes its begin or end, and no storage that exists
\* changes its contents.
StagesUnchanged ==
    /\ \A s \in DOMAIN stages : s \in DOMAIN stages' /\ stages'[s] = stages[s]
    /\ \A i \in DOMAIN storage : i \in DOMAIN storage' /\ storage'[i] = storage[i]

\* The step repeats the terminal call made just before it.
RepeatedCall ==
    /\ last.op \in TerminalOps
    /\ last'.op = last.op /\ last'.on = last.on
    /\ last'.f = last.f /\ last'.n = last.n /\ last'.kind = last.kind

\* C10 as stated: no intermediate or terminal operation changes the begin
\* or end of a stage it is invoked on, or the contents of the storage the
\* stage views, so a terminal operation repeated on the same stage gives the
\* same result.
C10_StageImmutableAndRepeatable ==
    [][StagesUnchanged /\ (RepeatedCall => ResultOf(last') = ResultOf(last))]_vars

=============================================================================
